---- MODULE Spec2Model ----
(***************************************************************************)
(* The ingestion pipeline of the news aggregator: the three article        *)
(* adapters (OpenAI RSS feed, Anthropic RSS feeds, ForwardFuture sitemap), *)
(* the YouTube channel-feed adapter and NewsAggregator.collect_all_content.*)
(*                                                                         *)
(* Instants are whole hours counted from the clock reading of the call     *)
(* (datetime.now(timezone.utc) is instant 0).  An optional value is a      *)
(* sequence of length at most one: None is <<>>, a present value v is <<v>>.*)
(* What the network returns (feeds, sitemap, pages) is the input of a call *)
(* and is drawn from bounded sets.                                         *)
(***************************************************************************)
EXTENDS Integers, Sequences, FiniteSets, TLC

----------------------------------------------------------------------------
(* Bounds of the model *)

\* entries of the feed (sitemap) read by one call of a single-source adapter
MaxEntries == 3
\* entries over all feeds read by one call of the multi-feed adapter
MaxFeedEntries == 3
\* largest max_articles_without_date passed to get_articles
MaxCap == 2
\* entries of the channel feed read by one call of get_latest_videos
MaxVideos == 2
\* entries of each feed (sitemap) read during one run of collect_all_content
MaxAggEntries == 1
\* tracks of one kind (manually created, generated) in a transcript listing
MaxTracks == 2

----------------------------------------------------------------------------
(* Values *)

None == <<>>
Some(v) == <<v>>
IsNone(o) == o = <<>>
Val(o) == o[1]

\* timedelta(days=1), in hours
Day == 24
\* datetime.min: the sort key of a record without a date
DatetimeMin == -1000
\* the clock reading datetime.now(timezone.utc) of a call
Now == 0

\* the `hours` arguments tried
HoursChoices == {0, 1}
\* instants a feed entry may carry: one hour ago, now, more than a day ahead
Dates == {Now - 1, Now, Now + Day + 1}
\* a URL is the sequence of its path segments (the host is fixed): <<"p", "a">> is
\* https://host/p/a and <<"p", "a", "">> is https://host/p/a/ (a trailing slash)
Urls == {<<"p", "a">>, <<"p", "a", "">>}

Range(s) == {s[i] : i \in 1..Len(s)}

\* A datetime: an aware one is its instant and its UTC offset in hours; a naive one
\* has no offset (tzinfo is None) and `instant` is its wall-clock reading, as the
\* instant that reading would be in UTC.
NaiveDatetime(wall) == [instant |-> wall, utcoffset |-> None]
AwareDatetime(wall, offset) == [instant |-> wall - offset, utcoffset |-> Some(offset)]
UtcDatetime(i) == AwareDatetime(i, 0)
\* a replace that leaves the datetime naive
MutKeepNaive(dt) == dt
\* dt.replace(tzinfo=timezone.utc): the wall-clock reading is kept
ReplaceTzinfoUtc(dt) ==
    IF IsNone(dt.utcoffset) THEN UtcDatetime(dt.instant)
    ELSE UtcDatetime(dt.instant + Val(dt.utcoffset))
\* dt.astimezone(timezone.utc): the instant is kept; a naive datetime is read as
\* local time, local_offset being the offset of the machine's zone
AsTimezoneUtc(dt, local_offset) ==
    IF IsNone(dt.utcoffset) THEN UtcDatetime(dt.instant - local_offset)
    ELSE UtcDatetime(dt.instant)
SeqsUpTo(S, n) == UNION {[1..k -> S] : k \in 0..n}
\* a slice that takes the last n elements instead of the first n
MutSliceFromEnd(s, n) ==
    LET k == IF n < Len(s) THEN n ELSE Len(s)
    IN  SubSeq(s, Len(s) - k + 1, Len(s))

\* the Python slice s[:n]
SliceTo(s, n) ==
    LET k == IF n >= 0 THEN (IF n < Len(s) THEN n ELSE Len(s))
             ELSE (IF Len(s) + n > 0 THEN Len(s) + n ELSE 0)
    IN  SubSeq(s, 1, k)

----------------------------------------------------------------------------
(* Sorting: list.sort(key=..., reverse=True) is stable, records with equal *)
(* keys keep their order.                                                  *)

SortKey(a) == IF IsNone(a.published_date) THEN DatetimeMin ELSE Val(a.published_date).instant

\* an insertion that puts x before the records of its own key
MutInsertBeforeEqual(s, x) ==
    LET before == {i \in 1..Len(s) : SortKey(s[i]) > SortKey(x)}
        k == Cardinality(before)
    IN  SubSeq(s, 1, k) \o <<x>> \o SubSeq(s, k + 1, Len(s))

\* s is sorted; x goes after every record whose key is >= its own
InsertDesc(s, x) ==
    LET before == {i \in 1..Len(s) : SortKey(s[i]) >= SortKey(x)}
        k == Cardinality(before)
    IN  SubSeq(s, 1, k) \o <<x>> \o SubSeq(s, k + 1, Len(s))

\* no sort at all: the records stay in the order they were collected in
MutNoSort(s) == s

RECURSIVE SortByDateDesc(_)
SortByDateDesc(s) ==
    IF s = <<>> THEN <<>>
    ELSE InsertDesc(SortByDateDesc(SubSeq(s, 1, Len(s) - 1)), s[Len(s)])

----------------------------------------------------------------------------
(* RSS entries.  An entry is what feedparser hands over: link and title    *)
(* (None when the attribute is absent), the decoded time tuples            *)
(* published_parsed and updated_parsed (None when absent), the raw         *)
(* published text (None when absent) and the raw category attribute.       *)

\* a raw date text: parsable to an instant or not
DateText(d) == [wellformed |-> TRUE, instant |-> d]
GarbageText == [wellformed |-> FALSE, instant |-> 0]

\* a decoded time tuple: one datetime(*t[:6]) accepts, or one it rejects
StructTime(d) == [valid |-> TRUE, instant |-> d]
BadStructTime == [valid |-> FALSE, instant |-> 0]

\* feedparser's own date parser applied to a raw text: a time tuple or nothing
FeedparserParseDate(text) == IF text.wellformed THEN Some(StructTime(text.instant)) ELSE None

\* datetime(*parsed[:6]) followed by replace(tzinfo=timezone.utc); None stands for
\* the exception of a tuple that is no date
DatetimeOfStruct(parsed) ==
    IF parsed.valid THEN Some(ReplaceTzinfoUtc(NaiveDatetime(parsed.instant))) ELSE None

\* _parse_published_date of the RSS adapters.  An exception of the conversion of
\* published_parsed or updated_parsed reaches the outer except, which returns
\* None; one raised for the published text is passed over by the inner except.
ParsePublishedDate(entry) ==
    IF ~IsNone(entry.published_parsed) THEN DatetimeOfStruct(Val(entry.published_parsed))
    ELSE IF ~IsNone(entry.updated_parsed) THEN DatetimeOfStruct(Val(entry.updated_parsed))
    ELSE IF ~IsNone(entry.published)
    THEN LET parsed == FeedparserParseDate(Val(entry.published))
         IN  IF ~IsNone(parsed) THEN DatetimeOfStruct(Val(parsed)) ELSE None
    ELSE None

\* a filter that also skips an entry published exactly at the cutoff
MutTimeFilterStrict(published_date, cutoff_time, now) ==
    IF ~IsNone(published_date)
    THEN IF Val(published_date).instant > now + Day THEN "keep"
         ELSE IF Val(published_date).instant <= cutoff_time THEN "skip"
         ELSE "keep"
    ELSE "nodate"

\* the time-window decision taken for one entry inside the loop of get_articles
TimeFilter(published_date, cutoff_time, now) ==
    IF ~IsNone(published_date)
    THEN IF Val(published_date).instant > now + Day THEN "keep"
         ELSE IF Val(published_date).instant < cutoff_time THEN "skip"
         ELSE "keep"
    ELSE "nodate"

\* the record constructor raises when the entry has no title or no link
Malformed(entry) == IsNone(entry.title) \/ IsNone(entry.link)

\* what a call hands to its caller
Raised == [raised |-> TRUE, value |-> <<>>]
Returned(v) == [raised |-> FALSE, value |-> v]

\* the outcome of fetch_rss_feed: a parsed feed, or an exception
FetchFailed == [ok |-> FALSE, entries |-> <<>>]
Fetched(es) == [ok |-> TRUE, entries |-> es]

----------------------------------------------------------------------------
(* OpenAIScraper.get_articles.  Records carry the position of the entry    *)
(* they were built from (entry), which the program does not store.         *)

OpenAIArticle(entry, i, published_date) ==
    [title |-> Val(entry.title), url |-> Val(entry.link),
     published_date |-> published_date, entry |-> <<1, i>>]

\* the for loop over feed.entries, from entry i on
RECURSIVE OpenAILoop(_, _, _, _)
OpenAILoop(entries, i, cutoff_time, st) ==
    IF i > Len(entries) \/ st.raised THEN st
    ELSE LET entry == entries[i]
             published_date == ParsePublishedDate(entry)
             verdict == TimeFilter(published_date, cutoff_time, Now)
             next ==
                IF verdict = "skip" THEN st
                ELSE IF verdict = "nodate"
                THEN [st EXCEPT !.articles_without_date = Append(@, i)]
                ELSE IF Malformed(entry) THEN [st EXCEPT !.raised = TRUE]
                ELSE [st EXCEPT !.articles =
                          Append(@, OpenAIArticle(entry, i, published_date))]
         IN  OpenAILoop(entries, i + 1, cutoff_time, next)

\* the loop over articles_without_date[:max_articles_without_date]
RECURSIVE OpenAIAddDateless(_, _, _, _)
OpenAIAddDateless(entries, held, k, st) ==
    IF k > Len(held) \/ st.raised THEN st
    ELSE LET entry == entries[held[k]]
             next == IF Malformed(entry) THEN [st EXCEPT !.raised = TRUE]
                     ELSE [st EXCEPT !.articles =
                               Append(@, OpenAIArticle(entry, held[k], None))]
         IN  OpenAIAddDateless(entries, held, k + 1, next)

\* the state of get_articles when the dateless loop has ended; fetch_rss_feed is
\* called outside any try
OpenAICollect(fetch, hours, max_articles_without_date) ==
    LET cutoff_time == Now - hours
        st0 == [articles |-> <<>>, articles_without_date |-> <<>>, raised |-> FALSE]
    IN  IF ~fetch.ok THEN [st0 EXCEPT !.raised = TRUE]
        ELSE LET st1 == OpenAILoop(fetch.entries, 1, cutoff_time, st0)
                 held == SliceTo(st1.articles_without_date, max_articles_without_date)
             IN  OpenAIAddDateless(fetch.entries, held, 1, st1)

\* sort and return, unless an exception left the function
OpenAIReturn(st) ==
    IF st.raised THEN Raised ELSE Returned(SortByDateDesc(st.articles))

OpenAIGetArticles(fetch, hours, max_articles_without_date) ==
    OpenAIReturn(OpenAICollect(fetch, hours, max_articles_without_date))


----------------------------------------------------------------------------
(* AnthropicScraper.get_articles.  feeds is the optional list of feed      *)
(* names; net[n] is what fetch_rss_feed gives for the n-th name.  A record *)
(* carries the place <<n, i>> of its entry: entry i of the n-th feed.      *)

\* list(RSS_FEEDS.keys())
RSS_FEEDS == <<"news", "engineering", "research">>

\* the raw category attribute of an entry: absent, a string, or a list
NoCategory == [kind |-> "absent", items |-> <<>>]
CategoryStr(c) == [kind |-> "str", items |-> <<c>>]
CategoryList(cs) == [kind |-> "list", items |-> cs]

\* "Extract category from entry if available"
Category(entry) ==
    IF entry.category.kind = "list" /\ Len(entry.category.items) > 0
    THEN entry.category.items[1]
    ELSE IF entry.category.kind = "str" THEN entry.category.items[1]
    ELSE ""

AnthropicArticle(entry, feed_name, place, published_date) ==
    [title |-> Val(entry.title), url |-> Val(entry.link),
     published_date |-> published_date, category |-> Category(entry),
     source_feed |-> feed_name, entry |-> place]

\* the for loop over feed.entries inside the try block, from entry i on; an
\* exception leaves the loop and sets caught
RECURSIVE AnthropicFeedLoop(_, _, _, _, _, _)
AnthropicFeedLoop(entries, i, feed_name, n, cutoff_time, st) ==
    IF i > Len(entries) \/ st.caught THEN st
    ELSE LET entry == entries[i]
             published_date == ParsePublishedDate(entry)
             verdict == TimeFilter(published_date, cutoff_time, Now)
             next ==
                IF verdict = "skip" THEN st
                ELSE IF verdict = "nodate"
                THEN [st EXCEPT !.articles_without_date = Append(@, <<n, i>>)]
                ELSE IF Malformed(entry) THEN [st EXCEPT !.caught = TRUE]
                ELSE [st EXCEPT !.all_articles =
                          Append(@, AnthropicArticle(entry, feed_name, <<n, i>>,
                                                     published_date))]
         IN  AnthropicFeedLoop(entries, i + 1, feed_name, n, cutoff_time, next)

\* the for loop over feeds, from the n-th name on; failed collects the feeds
\* whose try block ended in the except branch
RECURSIVE AnthropicFeedsLoop(_, _, _, _, _)
AnthropicFeedsLoop(names, net, n, cutoff_time, st) ==
    IF n > Len(names) THEN st
    ELSE LET feed_name == names[n]
             next ==
                IF feed_name \notin Range(RSS_FEEDS) THEN st
                ELSE IF ~net[n].ok THEN [st EXCEPT !.failed = @ \cup {n}]
                ELSE LET r == AnthropicFeedLoop(net[n].entries, 1, feed_name, n,
                                                cutoff_time, st)
                     IN  IF r.caught
                         THEN [r EXCEPT !.caught = FALSE, !.failed = @ \cup {n}]
                         ELSE r
         IN  AnthropicFeedsLoop(names, net, n + 1, cutoff_time, next)

\* the loop over articles_without_date[:max_articles_without_date], outside any try
RECURSIVE AnthropicAddDateless(_, _, _, _, _)
AnthropicAddDateless(names, net, held, k, st) ==
    IF k > Len(held) \/ st.raised THEN st
    ELSE LET n == held[k][1]
             entry == net[n].entries[held[k][2]]
             next == IF Malformed(entry) THEN [st EXCEPT !.raised = TRUE]
                     ELSE [st EXCEPT !.all_articles =
                               Append(@, AnthropicArticle(entry, names[n], held[k], None))]
         IN  AnthropicAddDateless(names, net, held, k + 1, next)

\* no deduplication
MutKeepAll(all_articles, seen_urls) == all_articles

\* a deduplication that keeps the last record of each URL instead of the first
RECURSIVE MutKeepLast(_, _)
MutKeepLast(all_articles, seen_urls) ==
    IF all_articles = <<>> THEN <<>>
    ELSE LET article == Head(all_articles)
             rest == Tail(all_articles)
         IN  IF \E k \in 1..Len(rest) : rest[k].url = article.url
             THEN MutKeepLast(rest, seen_urls)
             ELSE <<article>> \o MutKeepLast(rest, seen_urls)

\* "Remove duplicates based on URL"
RECURSIVE UniqueArticles(_, _)
UniqueArticles(all_articles, seen_urls) ==
    IF all_articles = <<>> THEN <<>>
    ELSE LET article == Head(all_articles)
         IN  IF article.url \notin seen_urls
             THEN <<article>> \o UniqueArticles(Tail(all_articles), seen_urls \cup {article.url})
             ELSE UniqueArticles(Tail(all_articles), seen_urls)

FeedNames(feeds) == IF IsNone(feeds) THEN RSS_FEEDS ELSE Val(feeds)

\* a cap that every feed has for itself
MutCapPerFeed(hours, feeds, net, max_articles_without_date) ==
    LET names == FeedNames(feeds)
        cutoff_time == Now - hours
        st0 == [all_articles |-> <<>>, articles_without_date |-> <<>>,
                caught |-> FALSE, failed |-> {}, raised |-> FALSE]
        st1 == AnthropicFeedsLoop(names, net, 1, cutoff_time, st0)
        ofFeed(h) == {k \in 1..Len(st1.articles_without_date) :
                        /\ st1.articles_without_date[k][1] = h[1]
                        /\ st1.articles_without_date[k][2] < h[2]}
        InCap(h) == Cardinality(ofFeed(h)) < max_articles_without_date
        held == SelectSeq(st1.articles_without_date, InCap)
    IN  AnthropicAddDateless(names, net, held, 1, st1)

\* the state of get_articles when the dateless loop has ended
AnthropicCollect(hours, feeds, net, max_articles_without_date) ==
    LET names == FeedNames(feeds)
        cutoff_time == Now - hours
        st0 == [all_articles |-> <<>>, articles_without_date |-> <<>>,
                caught |-> FALSE, failed |-> {}, raised |-> FALSE]
        st1 == AnthropicFeedsLoop(names, net, 1, cutoff_time, st0)
        held == SliceTo(st1.articles_without_date, max_articles_without_date)
    IN  AnthropicAddDateless(names, net, held, 1, st1)

\* deduplicate, sort and return, unless the dateless loop raised
AnthropicReturn(st) ==
    IF st.raised THEN Raised
    ELSE Returned(SortByDateDesc(UniqueArticles(st.all_articles, {})))

AnthropicGetArticles(hours, feeds, net, max_articles_without_date) ==
    AnthropicReturn(AnthropicCollect(hours, feeds, net, max_articles_without_date))

----------------------------------------------------------------------------
(* ForwardFutureScraper.get_articles.  A <url> element of the sitemap has  *)
(* an optional <loc> text and an optional <lastmod> text.  A lastmod text  *)
(* is a YYYY-MM-DD date, given by its day number, or not a date.           *)

DayText(day) == [wellformed |-> TRUE, day |-> day]
GarbageDayText == [wellformed |-> FALSE, day |-> 0]

\* _parse_date: strptime(date_str, "%Y-%m-%d") is midnight, taken as UTC
ParseDate(date_str) ==
    IF date_str.wellformed THEN Some(ReplaceTzinfoUtc(NaiveDatetime(date_str.day * Day)))
    ELSE None

\* '/p/' in url
HasArticlePath(url) == \E k \in 1..(Len(url) - 1) : url[k] = "p"

\* _extract_title_from_url: the slug after the last '/p/' (its words are
\* then capitalised) or the url itself
ExtractTitleFromUrl(url) ==
    IF HasArticlePath(url)
    THEN LET last == CHOOSE k \in 1..(Len(url) - 1) :
                        /\ url[k] = "p"
                        /\ \A j \in (k + 1)..(Len(url) - 1) : url[j] # "p"
         IN  SubSeq(url, last + 1, Len(url))
    ELSE url

ForwardFutureArticle(url, i, published_date) ==
    [title |-> ExtractTitleFromUrl(url), url |-> url,
     published_date |-> published_date, entry |-> <<1, i>>]

\* the for loop over the <url> elements, from element i on
RECURSIVE ForwardFutureLoop(_, _, _, _)
ForwardFutureLoop(elems, i, cutoff_time, st) ==
    IF i > Len(elems) THEN st
    ELSE LET url_elem == elems[i]
             next ==
                IF IsNone(url_elem.loc) THEN st
                ELSE IF Val(url_elem.loc) = <<>> THEN st
                ELSE IF ~HasArticlePath(Val(url_elem.loc)) THEN st
                ELSE LET url == Val(url_elem.loc)
                         published_date ==
                            IF ~IsNone(url_elem.lastmod)
                            THEN ParseDate(Val(url_elem.lastmod)) ELSE None
                         verdict == TimeFilter(published_date, cutoff_time, Now)
                     IN  IF verdict = "skip" THEN st
                         ELSE IF verdict = "nodate"
                         THEN [st EXCEPT !.articles_without_date = Append(@, i)]
                         ELSE [st EXCEPT !.articles =
                                   Append(@, ForwardFutureArticle(url, i, published_date))]
         IN  ForwardFutureLoop(elems, i + 1, cutoff_time, next)

\* the loop over articles_without_date[:max_articles_without_date]
RECURSIVE ForwardFutureAddDateless(_, _, _, _)
ForwardFutureAddDateless(elems, held, k, st) ==
    IF k > Len(held) THEN st
    ELSE ForwardFutureAddDateless(elems, held, k + 1,
            [st EXCEPT !.articles =
                Append(@, ForwardFutureArticle(Val(elems[held[k]].loc), held[k], None))])

\* the state of get_articles at the end of the try block; caught when
\* fetch_sitemap raised
ForwardFutureCollect(fetch, hours, max_articles_without_date) ==
    LET cutoff_time == Now - hours
        st0 == [articles |-> <<>>, articles_without_date |-> <<>>, caught |-> FALSE]
    IN  IF ~fetch.ok THEN [st0 EXCEPT !.caught = TRUE]
        ELSE LET st1 == ForwardFutureLoop(fetch.entries, 1, cutoff_time, st0)
                 held == SliceTo(st1.articles_without_date, max_articles_without_date)
             IN  ForwardFutureAddDateless(fetch.entries, held, 1, st1)

\* the except branch returns [], otherwise sort and return
ForwardFutureReturn(st) ==
    IF st.caught THEN Returned(<<>>) ELSE Returned(SortByDateDesc(st.articles))

ForwardFutureGetArticles(fetch, hours, max_articles_without_date) ==
    ForwardFutureReturn(ForwardFutureCollect(fetch, hours, max_articles_without_date))


----------------------------------------------------------------------------
(* YouTubeScraper.  A channel identifier is given by its form: a literal    *)
(* channel id, a channel URL (with or without id characters after          *)
(* /channel/), a handle URL (with or without name characters after @), a    *)
(* bare handle, or a text of none of these forms.                           *)

ChannelIdLiteral(id) == [form |-> "id", id |-> id, handle |-> ""]
ChannelUrl(id) == [form |-> "channel_url", id |-> id, handle |-> ""]
HandleUrl(name) == [form |-> "handle_url", id |-> "", handle |-> name]
Handle(name) == [form |-> "handle", id |-> "", handle |-> name]
OtherText == [form |-> "other", id |-> "", handle |-> ""]

\* re.match(r'^UC[a-zA-Z0-9_-]{22}$', channel_identifier)
MatchesChannelId(ident) == ident.form = "id"
\* 'youtube.com/channel/' in channel_identifier
ContainsChannelUrl(ident) == ident.form = "channel_url"
\* re.search(r'/channel/([a-zA-Z0-9_-]+)', channel_identifier): the id characters
\* after /channel/, no match when there is none
SearchChannelSegment(ident) == IF ident.id # "" THEN Some(ident.id) ELSE None
\* '@' in channel_identifier
ContainsAt(ident) == ident.form \in {"handle_url", "handle"}
\* 'youtube.com/@' in channel_identifier
ContainsHandleUrl(ident) == ident.form = "handle_url"
\* re.search(r'@([a-zA-Z0-9_-]+)', channel_identifier): the name characters after
\* @, no match when there is none
SearchHandle(ident) == IF ident.handle # "" THEN Some(ident.handle) ELSE None

\* the page of a handle: the request fails, or the page embeds the channel id in
\* the "channelId" pattern, in the canonical link, in both or in neither
PageFailed == [ok |-> FALSE, channelId |-> None, canonical |-> None]
Page(channelId, canonical) == [ok |-> TRUE, channelId |-> channelId, canonical |-> canonical]

\* a lookup that falls back on the handle when the page embeds no channel id
MutResolveToHandle(handle, page) ==
    IF ~page.ok THEN None
    ELSE IF ~IsNone(page.channelId) THEN page.channelId
    ELSE IF ~IsNone(page.canonical) THEN page.canonical
    ELSE Some(handle)

\* _resolve_handle_to_channel_id
ResolveHandleToChannelId(handle, page) ==
    IF ~page.ok THEN None
    ELSE IF ~IsNone(page.channelId) THEN page.channelId
    ELSE IF ~IsNone(page.canonical) THEN page.canonical
    ELSE None

\* extract_channel_id: the optional channel id, or an exception
ExtractChannelId(ident, page) ==
    IF MatchesChannelId(ident) THEN Returned(Some(ident.id))
    ELSE IF ContainsChannelUrl(ident) /\ ~IsNone(SearchChannelSegment(ident))
    THEN Returned(SearchChannelSegment(ident))
    ELSE IF ContainsAt(ident)
    THEN IF ContainsHandleUrl(ident)
         THEN IF IsNone(SearchHandle(ident)) THEN Raised
              ELSE Returned(ResolveHandleToChannelId(Val(SearchHandle(ident)), page))
         ELSE Returned(ResolveHandleToChannelId(ident.handle, page))
    ELSE Returned(None)

\* A published text of a channel feed: its format, the wall-clock reading it
\* shows (as an instant, were the reading in UTC) and its zone designator: none,
\* the letter Z, a numeric offset (hours east of UTC), or a zone name.
NoZone == [kind |-> "none", name |-> "", offset |-> 0]
ZoneZ == [kind |-> "Z", name |-> "", offset |-> 0]
ZoneOffset(o) == [kind |-> "offset", name |-> "", offset |-> o]
ZoneName(nm) == [kind |-> "name", name |-> nm, offset |-> 0]
PublishedText(fmt, wall, zone) == [fmt |-> fmt, wall |-> wall, zone |-> zone]
GarbagePublished == PublishedText("garbage", 0, NoZone)

\* the zone names strptime's %Z accepts on a machine whose local zone is local
StrptimeZoneNames(local) == {"UTC", "GMT", local.name}

\* YouTubeScraper._parse_published_date applied to a text, on a machine whose local
\* zone is local (its name and its offset east of UTC, in hours)
YouTubeParsePublishedDate(text, local) ==
    IF /\ text.fmt = "rfc822"
       /\ text.zone.kind = "name"
       /\ text.zone.name \in StrptimeZoneNames(local)
    THEN \* strptime gives a naive datetime, whose tzinfo is set to UTC
         Some(AsTimezoneUtc(ReplaceTzinfoUtc(NaiveDatetime(text.wall)), local.offset))
    ELSE IF text.fmt = "iso"
    THEN IF text.zone.kind = "none"
         THEN Some(AsTimezoneUtc(NaiveDatetime(text.wall), local.offset))
         ELSE IF text.zone.kind \in {"Z", "offset"}
         THEN Some(AsTimezoneUtc(AwareDatetime(text.wall, text.zone.offset), local.offset))
         ELSE None
    ELSE None

\* a feed entry: title, link and published are None when the attribute is absent;
\* a link is given by its optional v query parameter
WatchLink(v) == [v |-> v]

ChannelVideo(entry, i, video_id, published_date, channel_id) ==
    [title |-> Val(entry.title), link |-> Val(entry.link), video_id |-> video_id,
     published_date |-> published_date, description |-> entry.summary,
     channel_id |-> channel_id, transcript |-> None, entry |-> i]

\* the for loop of fetch_videos_from_rss, from entry i on; an attribute that is
\* absent raises, which the except branch catches
RECURSIVE FetchVideosLoop(_, _, _, _, _)
FetchVideosLoop(entries, i, channel_id, local, st) ==
    IF i > Len(entries) \/ st.caught THEN st
    ELSE LET entry == entries[i]
             needs_link == IsNone(entry.yt_videoid)
             video_id == IF ~IsNone(entry.yt_videoid) THEN entry.yt_videoid
                         ELSE Val(entry.link).v
             next ==
                IF \/ IsNone(entry.link)
                   \/ IsNone(entry.title)
                   \/ IsNone(entry.published)
                THEN [st EXCEPT !.caught = TRUE]
                ELSE [st EXCEPT !.videos =
                        Append(@, ChannelVideo(entry, i, video_id,
                                    YouTubeParsePublishedDate(Val(entry.published), local),
                                    channel_id))]
         IN  FetchVideosLoop(entries, i + 1, channel_id, local, next)

\* the outcome of the feed request: the request fails, or a parsed feed
FeedFailed == [ok |-> FALSE, entries |-> <<>>]

\* the except branch of fetch_videos_from_rss is taken inside the for loop
FetchVideosCaught(feed, local) ==
    /\ feed.ok
    /\ FetchVideosLoop(feed.entries, 1, "", local, [videos |-> <<>>, caught |-> FALSE]).caught

\* fetch_videos_from_rss: every exception ends in return []
FetchVideosFromRss(channel_id, feed, local) ==
    IF ~feed.ok THEN <<>>
    ELSE IF feed.entries = <<>> THEN <<>>
    ELSE LET st == FetchVideosLoop(feed.entries, 1, channel_id, local,
                                   [videos |-> <<>>, caught |-> FALSE])
         IN  IF st.caught THEN <<>> ELSE st.videos

\* filter_videos_by_time
RECURSIVE FilterVideosByTime(_, _)
FilterVideosByTime(videos, hours) ==
    IF videos = <<>> THEN <<>>
    ELSE LET video == Head(videos)
             cutoff_time == Now - hours
             rest == FilterVideosByTime(Tail(videos), hours)
         IN  IF ~IsNone(video.published_date) /\ Val(video.published_date).instant >= cutoff_time
             THEN <<video>> \o rest
             ELSE rest

\* The transcript listing of a video: the listing request fails (transcripts
\* disabled, or another error) or gives the manually created and the generated
\* tracks, at most one of each kind per language; a track's fetch gives its text
\* segments or fails.
ListingFailed == [ok |-> FALSE, manual |-> <<>>, generated |-> <<>>]
Listing(manual, generated) == [ok |-> TRUE, manual |-> manual, generated |-> generated]
Track(lang, is_generated, segments) ==
    [language_code |-> lang, is_generated |-> is_generated, segments |-> segments]

FirstIn(tracks, langs) ==
    LET hits == {k \in 1..Len(langs) : \E t \in Range(tracks) : t.language_code = langs[k]}
    IN  IF hits = {} THEN None
        ELSE LET k == CHOOSE h \in hits : \A g \in hits : h <= g
             IN  Some(CHOOSE t \in Range(tracks) : t.language_code = langs[k])

\* transcript_list.find_manually_created_transcript(languages)
FindManuallyCreatedTranscript(listing, langs) == FirstIn(listing.manual, langs)
\* a lookup of generated tracks that takes the first one, whatever its language
MutFindAnyGenerated(listing, langs) ==
    IF listing.generated = <<>> THEN None ELSE Some(listing.generated[1])

\* transcript_list.find_generated_transcript(languages)
FindGeneratedTranscript(listing, langs) == FirstIn(listing.generated, langs)
\* transcript_list.find_transcript(languages): for each language, its manually
\* created track, else its generated track
FindTranscript(listing, langs) ==
    LET hits == {k \in 1..Len(langs) :
                    \E t \in Range(listing.manual) \cup Range(listing.generated) :
                        t.language_code = langs[k]}
    IN  IF hits = {} THEN None
        ELSE LET k == CHOOSE h \in hits : \A g \in hits : h <= g
                 m == FirstIn(listing.manual, <<langs[k]>>)
             IN  IF ~IsNone(m) THEN m ELSE FirstIn(listing.generated, <<langs[k]>>)

\* the loop "for lang in languages" with its try / break / continue
RECURSIVE PreferredTranscript(_, _, _)
PreferredTranscript(listing, languages, k) ==
    IF k > Len(languages) THEN None
    ELSE LET t == FindTranscript(listing, <<languages[k]>>)
         IN  IF ~IsNone(t) THEN t ELSE PreferredTranscript(listing, languages, k + 1)

\* ' '.join of the text segments
RECURSIVE JoinSegments(_)
JoinSegments(segments) ==
    IF segments = <<>> THEN <<>>
    ELSE IF Len(segments) = 1 THEN <<segments[1]>>
    ELSE <<segments[1], " ">> \o JoinSegments(Tail(segments))

\* a selection that stops after the preferred languages
MutSelectPreferredOnly(listing, languages) == PreferredTranscript(listing, languages, 1)

\* the track get_video_transcript selects, None when there is none
SelectTranscript(listing, languages) ==
    LET preferred == PreferredTranscript(listing, languages, 1)
        manual == FindManuallyCreatedTranscript(listing, languages)
        generated == FindGeneratedTranscript(listing, languages)
        available == listing.manual \o listing.generated
    IN  IF ~IsNone(preferred) THEN preferred
        ELSE IF ~IsNone(manual) THEN manual
        ELSE IF ~IsNone(generated) THEN generated
        ELSE IF available # <<>> THEN Some(available[1])
        ELSE None

\* if languages is None: languages = ['en']
LanguagesOrDefault(languages) == IF IsNone(languages) THEN <<"en">> ELSE Val(languages)

\* a get_video_transcript that, when the fetch of the selected track fails, falls
\* back on the first listed track whose fetch succeeds
MutTryOtherTracks(listing, languages) ==
    IF ~listing.ok THEN None
    ELSE LET transcript_obj == SelectTranscript(listing, languages)
             available == listing.manual \o listing.generated
             fetchable == {k \in 1..Len(available) : ~IsNone(available[k].segments)}
         IN  IF IsNone(transcript_obj) THEN None
             ELSE IF ~IsNone(Val(transcript_obj).segments)
             THEN Some([text |-> JoinSegments(Val(Val(transcript_obj).segments))])
             ELSE IF fetchable = {} THEN None
             ELSE Some([text |-> JoinSegments(Val(available[
                        CHOOSE k \in fetchable : \A j \in fetchable : k <= j].segments))])

\* get_video_transcript: the optional Transcript; every exception ends in None
GetVideoTranscript(listing, languages) ==
    IF ~listing.ok THEN None
    ELSE LET transcript_obj == SelectTranscript(listing, languages)
         IN  IF IsNone(transcript_obj) THEN None
             ELSE IF IsNone(Val(transcript_obj).segments) THEN None
             ELSE Some([text |-> JoinSegments(Val(Val(transcript_obj).segments))])

\* the loop of get_latest_videos that attaches the transcripts; listings[i] is the
\* listing the backend gives for entry i of the feed
RECURSIVE AttachTranscripts(_, _)
AttachTranscripts(recent_videos, listings) ==
    IF recent_videos = <<>> THEN <<>>
    ELSE LET video == Head(recent_videos)
             updated_video ==
                IF ~IsNone(video.video_id)
                THEN [video EXCEPT !.transcript =
                        GetVideoTranscript(listings[video.entry], <<"en">>)]
                ELSE video
         IN  <<updated_video>> \o AttachTranscripts(Tail(recent_videos), listings)

\* requests.get(url) of _resolve_handle_to_channel_id: made for a handle, not for
\* a literal id, a channel URL, a text of no form or a handle URL without a name
HandleRequests(ident) ==
    IF ~MatchesChannelId(ident)
       /\ ~(ContainsChannelUrl(ident) /\ ~IsNone(SearchChannelSegment(ident)))
       /\ ContainsAt(ident)
       /\ ~(ContainsHandleUrl(ident) /\ IsNone(SearchHandle(ident)))
    THEN <<[kind |-> "page", entry |-> 0]>>
    ELSE <<>>

\* yt_api.list(video_id) of the loop over recent_videos: one per video with a video_id
RECURSIVE TranscriptRequests(_)
TranscriptRequests(recent_videos) ==
    IF recent_videos = <<>> THEN <<>>
    ELSE (IF ~IsNone(Head(recent_videos).video_id)
          THEN <<[kind |-> "transcript", entry |-> Head(recent_videos).entry]>>
          ELSE <<>>) \o TranscriptRequests(Tail(recent_videos))

\* a get_latest_videos that reads the channel feed before it looks at channel_id
MutRequestsFeedFirst(ident, hours, include_transcripts, page, feed, local) ==
    HandleRequests(ident) \o <<[kind |-> "feed", entry |-> 0]>>

\* the requests of get_latest_videos, in the order of its steps
GetLatestVideosRequests(ident, hours, include_transcripts, page, feed, local) ==
    LET extracted == ExtractChannelId(ident, page)
    IN  IF extracted.raised \/ IsNone(extracted.value) THEN HandleRequests(ident)
        ELSE LET videos == FetchVideosFromRss(Val(extracted.value), feed, local)
                 recent_videos == FilterVideosByTime(videos, hours)
             IN  HandleRequests(ident) \o <<[kind |-> "feed", entry |-> 0]>>
                    \o (IF include_transcripts THEN TranscriptRequests(recent_videos)
                        ELSE <<>>)

\* an attachment that sets the transcript on the record itself
MutUpdateInPlace(recent_videos, updated_videos) == updated_videos

\* video.model_copy(update={'transcript': transcript}) makes a new record for
\* updated_videos: the records of recent_videos are, after the loop, as they were
RecentVideosAfter(recent_videos, updated_videos) == recent_videos

\* get_latest_videos
GetLatestVideos(ident, hours, include_transcripts, page, feed, listings, local) ==
    LET extracted == ExtractChannelId(ident, page)
    IN  IF extracted.raised THEN Raised
        ELSE IF IsNone(extracted.value) THEN Returned(<<>>)
        ELSE LET channel_id == Val(extracted.value)
                 videos == FetchVideosFromRss(channel_id, feed, local)
                 recent_videos == FilterVideosByTime(videos, hours)
             IN  IF include_transcripts
                 THEN Returned(AttachTranscripts(recent_videos, listings))
                 ELSE Returned(recent_videos)

----------------------------------------------------------------------------
(* The inputs of a call *)

\* the date fields of an entry: none at all, an unparsable published text, or a
\* decoded published_parsed
NoDateFields == [published_parsed |-> None, updated_parsed |-> None, published |-> None]
GarbageDateFields == [NoDateFields EXCEPT !.published = Some(GarbageText)]
DateFieldsAt(d) == [NoDateFields EXCEPT !.published_parsed = Some(StructTime(d))]
DateFields == {NoDateFields, GarbageDateFields} \cup {DateFieldsAt(d) : d \in Dates}

RssEntry(link, title, df, category) ==
    [link |-> link, title |-> title, category |-> category,
     published_parsed |-> df.published_parsed, updated_parsed |-> df.updated_parsed,
     published |-> df.published]

\* entries of the single feed: with a title and a link, or with the title missing
OpenAIEntries ==
    {RssEntry(Some(u), Some("t"), df, NoCategory) : u \in Urls, df \in DateFields}
    \cup {RssEntry(Some(<<"p", "a">>), None, df, NoCategory) :
            df \in {NoDateFields, DateFieldsAt(Now)}}

\* entries of the multi-feed adapter: with a title, a link and a category attribute,
\* or with the title missing
AnthropicEntries ==
    {RssEntry(Some(u), Some("t"), df, NoCategory) :
        u \in Urls, df \in DateFields \ {GarbageDateFields}}
    \cup {RssEntry(Some(<<"p", "a">>), Some("t"), df, CategoryStr("policy")) :
            df \in {NoDateFields, DateFieldsAt(Now)}}
    \cup {RssEntry(Some(<<"p", "a">>), None, df, NoCategory) :
            df \in {NoDateFields, DateFieldsAt(Now)}}

\* <url> elements: article pages with any lastmod, and elements the loop skips
LastMods == {None, Some(GarbageDayText)} \cup {Some(DayText(d)) : d \in {-1, 0, 2}}
UrlElems ==
    {[loc |-> Some(u), lastmod |-> m] : u \in Urls, m \in LastMods}
    \cup {[loc |-> l, lastmod |-> None] : l \in {None, Some(<<>>), Some(<<"about">>)}}

\* the feed lists passed to AnthropicScraper.get_articles
FeedsChoices == {Some(<<"research", "blog", "news">>)}

\* the channel identifiers passed to get_latest_videos
Identifiers ==
    {ChannelIdLiteral("UC1"), ChannelUrl("UC1"), ChannelUrl(""), HandleUrl("h"),
     HandleUrl(""), Handle("h"), OtherText}

\* what the page of a handle can be
Pages ==
    {PageFailed, Page(None, None), Page(Some("UC1"), None), Page(None, Some("UC2")),
     Page(Some("UC1"), Some("UC2"))}

\* the local zone of the machine: its name and its offset east of UTC in hours
LocalZones == {[name |-> "UTC", offset |-> 0], [name |-> "EST", offset |-> -5]}

\* published texts: the same wall-clock reading in each format and zone form
PublishedTexts ==
    {GarbagePublished,
     PublishedText("rfc822", Now, ZoneName("GMT")),
     PublishedText("rfc822", Now, ZoneName("EST")),
     PublishedText("rfc822", Now, ZoneOffset(0)),
     PublishedText("iso", Now, NoZone),
     PublishedText("iso", Now, ZoneZ),
     PublishedText("iso", Now - 1, ZoneZ),
     PublishedText("iso", Now - 2, ZoneOffset(0))}

VideoEntry(title, link, yt_videoid, published) ==
    [title |-> title, link |-> link, yt_videoid |-> yt_videoid, published |-> published,
     summary |-> "s"]

\* entries of a channel feed: complete ones with any published text, and ones that
\* lack yt_videoid, the v parameter, the title, the link or the published field
VideoEntries ==
    {VideoEntry(Some("t"), Some(WatchLink(Some("v1"))), Some("v1"), Some(text)) :
        text \in PublishedTexts}
    \cup {VideoEntry(Some("t"), Some(WatchLink(v)), None,
                     Some(PublishedText("iso", Now, ZoneZ))) : v \in {None, Some("v2")}}
    \cup {VideoEntry(None, Some(WatchLink(Some("v1"))), Some("v1"),
                     Some(PublishedText("iso", Now, ZoneZ))),
          VideoEntry(Some("t"), None, Some("v1"), Some(PublishedText("iso", Now, ZoneZ))),
          VideoEntry(Some("t"), Some(WatchLink(Some("v1"))), Some("v1"), None)}

\* what the transcript backend can list for a video
Listings ==
    {ListingFailed,
     Listing(<<>>, <<>>),
     Listing(<<Track("en", FALSE, Some(<<"m", "n">>))>>, <<Track("en", TRUE, Some(<<"g">>))>>),
     Listing(<<Track("fr", FALSE, Some(<<"m">>))>>, <<Track("en", TRUE, Some(<<"g">>))>>),
     Listing(<<>>, <<Track("de", TRUE, Some(<<"g">>))>>),
     Listing(<<Track("en", FALSE, None)>>, <<>>)}

Sum(f, n) == LET RECURSIVE S(_)
                 S(k) == IF k = 0 THEN 0 ELSE f[k] + S(k - 1)
             IN  S(n)

----------------------------------------------------------------------------
(* The state: one call of an entry point, its input and its outcome *)

VARIABLES
    pc,      \* "idle" before the call, "done" after it, the step of the aggregator between
    call,    \* the entry point called and its arguments
    net,     \* what the network returned to the call, one fetch per feed
    ret,     \* what the call handed to its caller
    failed,  \* the feeds (fetches) whose try block caught an exception
    collected, \* the list of records (articles, all_articles) before deduplication and sort;
               \* of get_latest_videos, the records of recent_videos when the call returns
    results, \* the results dictionary of collect_all_content
    channel, \* the position of the for loop over YOUTUBE_CHANNELS
    log,     \* the outcome of each adapter call collect_all_content made, in call order
    total_items, \* the grand total collect_all_content prints in its summary
    requests \* the requests get_latest_videos made, in the order it made them

vars ==
    <<pc, call, net, ret, failed, collected, results, channel, log, total_items, requests>>

\* the variables of collect_all_content, which a single adapter call leaves alone
aggregatorVars == <<results, channel, log, total_items>>

NoResults == <<>>

\* the calls of the article adapters
ArticleCalls ==
    [adapter : {"openai", "forwardfuture"}, hours : HoursChoices, cap : 0..MaxCap,
     feeds : {None}]
    \cup [adapter : {"anthropic"}, hours : HoursChoices, cap : 0..MaxCap,
          feeds : FeedsChoices]

InitArticles ==
    /\ pc = "idle"
    /\ call \in ArticleCalls
    /\ net = <<>>
    /\ ret = Returned(<<>>)
    /\ failed = {}
    /\ collected = <<>>
    /\ results = NoResults
    /\ channel = 0
    /\ log = <<>>
    /\ total_items = 0
    /\ requests = <<>>

CallOpenAI ==
    /\ pc = "idle"
    /\ call.adapter = "openai"
    /\ \E fetch \in {FetchFailed} \cup {Fetched(es) : es \in SeqsUpTo(OpenAIEntries, MaxEntries)} :
         LET st == OpenAICollect(fetch, call.hours, call.cap)
         IN  /\ net' = <<fetch>>
             /\ ret' = OpenAIReturn(st)
             /\ collected' = st.articles
    /\ pc' = "done"
    /\ UNCHANGED <<requests, call, failed, aggregatorVars>>

CallForwardFuture ==
    /\ pc = "idle"
    /\ call.adapter = "forwardfuture"
    /\ \E fetch \in {FetchFailed} \cup {Fetched(es) : es \in SeqsUpTo(UrlElems, MaxEntries)} :
         LET st == ForwardFutureCollect(fetch, call.hours, call.cap)
         IN  /\ net' = <<fetch>>
             /\ ret' = ForwardFutureReturn(st)
             /\ collected' = st.articles
             /\ failed' = IF st.caught THEN {1} ELSE {}
    /\ pc' = "done"
    /\ UNCHANGED <<requests, call, aggregatorVars>>

\* the fetches of a feed list: feed n yields ks[n] entries of flat, or fails
FeedNet(names, ks, bad, flat) ==
    [n \in 1..Len(names) |->
        IF n \in bad THEN FetchFailed
        ELSE Fetched(SubSeq(flat, Sum(ks, n - 1) + 1, Sum(ks, n)))]

\* each known name of the list is fetched and fails or yields entries, MaxFeedEntries
\* entries at most over all feeds; an unknown name is never fetched
CallAnthropic ==
    /\ pc = "idle"
    /\ call.adapter = "anthropic"
    /\ LET names == FeedNames(call.feeds)
           L == Len(names)
           unknown == {n \in 1..L : names[n] \notin Range(RSS_FEEDS)}
       IN  \E ks \in [1..L -> 0..MaxFeedEntries] :
              /\ Sum(ks, L) <= MaxFeedEntries
              /\ \A n \in unknown : ks[n] = 0
              /\ \E bad \in SUBSET {n \in 1..L : ks[n] = 0} :
                   /\ unknown \subseteq bad
                   /\ \E flat \in [1..Sum(ks, L) -> AnthropicEntries] :
                        LET fetches == FeedNet(names, ks, bad, flat)
                            st == AnthropicCollect(call.hours, call.feeds, fetches, call.cap)
                        IN  /\ net' = fetches
                            /\ ret' = AnthropicReturn(st)
                            /\ failed' = st.failed
                            /\ collected' = st.all_articles
    /\ pc' = "done"
    /\ UNCHANGED <<requests, call, aggregatorVars>>

NextArticles == CallOpenAI \/ CallForwardFuture \/ CallAnthropic

SpecArticles == InitArticles /\ [][NextArticles]_vars


----------------------------------------------------------------------------
(* One call of YouTubeScraper.get_latest_videos *)

YouTubeCalls ==
    [adapter : {"youtube"}, ident : Identifiers, hours : HoursChoices,
     include_transcripts : BOOLEAN, local : LocalZones]

InitYouTube ==
    /\ pc = "idle"
    /\ call \in YouTubeCalls
    /\ net = <<>>
    /\ ret = Returned(<<>>)
    /\ failed = {}
    /\ collected = <<>>
    /\ results = NoResults
    /\ channel = 0
    /\ log = <<>>
    /\ total_items = 0
    /\ requests = <<>>

\* no request is made: the placeholders of net
NoPage == PageFailed
NoFeed == FeedFailed

\* the pages the call can see: one per handle lookup, none without a lookup
PagesFor(ident) ==
    IF ContainsAt(ident) /\ ~(ContainsHandleUrl(ident) /\ IsNone(SearchHandle(ident)))
    THEN Pages ELSE {NoPage}

\* the feeds the call can see: none unless a channel id was obtained
FeedsFor(ident, page, maxlen, entries) ==
    LET extracted == ExtractChannelId(ident, page)
    IN  IF extracted.raised \/ IsNone(extracted.value) THEN {NoFeed}
        ELSE {FeedFailed} \cup {Fetched(es) : es \in SeqsUpTo(entries, maxlen)}

\* the listings the call can see: one for each video a transcript is requested for
ListingsFor(recent_videos, feed, include_transcripts) ==
    LET asked == IF include_transcripts
                 THEN {recent_videos[k].entry : k \in {j \in 1..Len(recent_videos) :
                                                    ~IsNone(recent_videos[j].video_id)}}
                 ELSE {}
    IN  {ls \in [1..Len(feed.entries) -> Listings] :
            \A i \in 1..Len(feed.entries) : i \notin asked => ls[i] = ListingFailed}

CallYouTube ==
    /\ pc = "idle"
    /\ call.adapter = "youtube"
    /\ \E page \in PagesFor(call.ident) :
         \E feed \in FeedsFor(call.ident, page, MaxVideos, VideoEntries) :
            LET plain == GetLatestVideos(call.ident, call.hours, FALSE, page, feed,
                                         <<>>, call.local)
                recent == IF plain.raised THEN <<>> ELSE plain.value
            IN  \E listings \in ListingsFor(recent, feed, call.include_transcripts) :
                   /\ net' = [page |-> page, feed |-> feed, listings |-> listings]
                   /\ ret' = GetLatestVideos(call.ident, call.hours,
                                             call.include_transcripts, page, feed,
                                             listings, call.local)
                   /\ failed' = IF FetchVideosCaught(feed, call.local) THEN {1} ELSE {}
                   /\ collected' = IF ret'.raised THEN <<>>
                                   ELSE RecentVideosAfter(recent, ret'.value)
                   /\ requests' = GetLatestVideosRequests(call.ident, call.hours,
                                        call.include_transcripts, page, feed, call.local)
    /\ pc' = "done"
    /\ UNCHANGED <<call, aggregatorVars>>

NextYouTube == CallYouTube

SpecYouTube == InitYouTube /\ [][NextYouTube]_vars


----------------------------------------------------------------------------
(* One call of any of the four adapters *)

InitAdapters == InitArticles \/ InitYouTube

NextAdapters == CallOpenAI \/ CallForwardFuture \/ CallAnthropic \/ CallYouTube

SpecAdapters == InitAdapters /\ [][NextAdapters]_vars

----------------------------------------------------------------------------
(* NewsAggregator.collect_all_content: one step per adapter call *)

\* config/youtube_channels.py
YOUTUBE_CHANNELS ==
    <<HandleUrl("matthew_berman"), HandleUrl("Firstpost"), HandleUrl("aiDotEngineer")>>

\* the channel lists the configuration can hold: none, the list of the repository,
\* and a list of mixed forms with an identifier get_latest_videos raises on
ChannelLists ==
    {<<>>, YOUTUBE_CHANNELS, <<HandleUrl("h"), HandleUrl(""), ChannelIdLiteral("UC1")>>}

\* the default of max_articles_without_date
DefaultMaxWithoutDate == 10

AggregatorCalls ==
    [adapter : {"aggregator"}, hours : HoursChoices, channels : ChannelLists,
     local : LocalZones]

\* what the sources hold during a run of the aggregator
AggVideoEntries ==
    {VideoEntry(Some("t"), Some(WatchLink(Some("v1"))), Some("v1"),
                Some(PublishedText("iso", Now, ZoneZ))),
     VideoEntry(Some("t"), Some(WatchLink(Some("v1"))), Some("v1"), None)}
AggRssEntries ==
    {RssEntry(Some(<<"p", "a">>), Some("t"), DateFieldsAt(Now), NoCategory),
     RssEntry(Some(<<"p", "a">>), Some("t"), NoDateFields, NoCategory),
     RssEntry(Some(<<"p", "a">>), None, NoDateFields, NoCategory)}
AggUrlElems ==
    {[loc |-> Some(<<"p", "a">>), lastmod |-> Some(DayText(0))],
     [loc |-> Some(<<"p", "a">>), lastmod |-> None]}
AggFetches(entries) ==
    {FetchFailed} \cup {Fetched(es) : es \in SeqsUpTo(entries, MaxAggEntries)}

InitAggregator ==
    /\ pc = "idle"
    /\ call \in AggregatorCalls
    /\ net = <<>>
    /\ ret = Returned(<<>>)
    /\ failed = {}
    /\ collected = <<>>
    /\ results = NoResults
    /\ channel = 0
    /\ log = <<>>
    /\ total_items = 0
    /\ requests = <<>>

\* a failing channel that empties the list accumulated so far
MutDropOnFailure(youtube_videos, outcome) ==
    IF outcome.raised THEN <<>> ELSE youtube_videos \o outcome.value

\* try: results['youtube_videos'].extend(videos) / except Exception: print
ExtendVideos(youtube_videos, outcome) ==
    IF outcome.raised THEN youtube_videos ELSE youtube_videos \o outcome.value

\* try: results[key] = articles / except Exception: print
AssignArticles(current, outcome) ==
    IF outcome.raised THEN current ELSE outcome.value

\* a summary that counts the articles only
MutTotalOfArticles(report) ==
    Len(report.anthropic_articles) + Len(report.openai_articles)
        + Len(report.forwardfuture_articles)

\* total_items of the summary
TotalItems(report) ==
    Len(report.youtube_videos) + Len(report.anthropic_articles)
        + Len(report.openai_articles) + Len(report.forwardfuture_articles)

Logged(source, n, outcome) == [source |-> source, channel |-> n, outcome |-> outcome]

\* the results dictionary is created; the loop over the channels is entered when
\* the list is not empty
AggStart ==
    /\ pc = "idle"
    /\ call.adapter = "aggregator"
    /\ results' = [youtube_videos |-> <<>>, anthropic_articles |-> <<>>,
                   openai_articles |-> <<>>, forwardfuture_articles |-> <<>>,
                   timestamp |-> Now]
    /\ channel' = 1
    /\ pc' = IF call.channels # <<>> THEN "youtube" ELSE "anthropic"
    /\ UNCHANGED <<requests, call, net, ret, failed, collected, log, total_items>>

\* one iteration of the loop over YOUTUBE_CHANNELS
AggYouTube ==
    /\ pc = "youtube"
    /\ LET ident == call.channels[channel]
       IN  \E page \in PagesFor(ident) :
             \E feed \in FeedsFor(ident, page, MaxAggEntries, AggVideoEntries) :
                LET outcome == GetLatestVideos(ident, call.hours, FALSE, page, feed,
                                               <<>>, call.local)
                IN  /\ results' = [results EXCEPT !.youtube_videos = ExtendVideos(@, outcome)]
                    /\ log' = Append(log, Logged("youtube", channel, outcome))
    /\ channel' = channel + 1
    /\ pc' = IF channel = Len(call.channels) THEN "anthropic" ELSE "youtube"
    /\ UNCHANGED <<requests, call, net, ret, failed, collected, total_items>>

AggAnthropic ==
    /\ pc = "anthropic"
    /\ \E fetches \in [1..Len(RSS_FEEDS) -> AggFetches(AggRssEntries)] :
         LET outcome == AnthropicGetArticles(call.hours, None, fetches,
                                             DefaultMaxWithoutDate)
         IN  /\ results' = [results EXCEPT !.anthropic_articles = AssignArticles(@, outcome)]
             /\ log' = Append(log, Logged("anthropic", 0, outcome))
    /\ pc' = "openai"
    /\ UNCHANGED <<requests, call, net, ret, failed, collected, channel, total_items>>

AggOpenAI ==
    /\ pc = "openai"
    /\ \E fetch \in AggFetches(AggRssEntries) :
         LET outcome == OpenAIGetArticles(fetch, call.hours, DefaultMaxWithoutDate)
         IN  /\ results' = [results EXCEPT !.openai_articles = AssignArticles(@, outcome)]
             /\ log' = Append(log, Logged("openai", 0, outcome))
    /\ pc' = "forwardfuture"
    /\ UNCHANGED <<requests, call, net, ret, failed, collected, channel, total_items>>

\* the last adapter call; the summary is printed and results is returned
AggForwardFuture ==
    /\ pc = "forwardfuture"
    /\ \E fetch \in AggFetches(AggUrlElems) :
         LET outcome == ForwardFutureGetArticles(fetch, call.hours, DefaultMaxWithoutDate)
         IN  /\ results' = [results EXCEPT !.forwardfuture_articles =
                                AssignArticles(@, outcome)]
             /\ log' = Append(log, Logged("forwardfuture", 0, outcome))
    /\ total_items' = TotalItems(results')
    /\ ret' = Returned(results')
    /\ pc' = "done"
    /\ UNCHANGED <<requests, call, net, failed, collected, channel>>

NextAggregator == AggStart \/ AggYouTube \/ AggAnthropic \/ AggOpenAI \/ AggForwardFuture

SpecAggregator == InitAggregator /\ [][NextAggregator]_vars


----------------------------------------------------------------------------
(* The resolvers on their own: one call of a date resolver, of            *)
(* extract_channel_id or of get_video_transcript on an input of its domain *)

\* entries for _parse_published_date: each candidate is absent, present and
\* unparsable, or present and parsable, the three candidates holding different
\* instants
CandidateDateFields ==
    [published_parsed : {None, Some(BadStructTime), Some(StructTime(Now - 1))},
     updated_parsed : {None, Some(BadStructTime), Some(StructTime(Now))},
     published : {None, Some(GarbageText), Some(DateText(Now + 1))}]
RssDateCalls ==
    {[op |-> "rss_date", entry |-> RssEntry(Some(<<"p", "a">>), Some("t"), df, NoCategory)] :
        df \in CandidateDateFields}

\* OpenAIScraper._parse_published_date / AnthropicScraper._parse_published_date
ResolveRssDate ==
    /\ pc = "idle"
    /\ call.op = "rss_date"
    /\ ret' = Returned(ParsePublishedDate(call.entry))
    /\ pc' = "done"
    /\ UNCHANGED <<requests, call, net, failed, collected, aggregatorVars>>

\* published texts for the channel resolver: RFC-822 texts, whose zone is a name or
\* a numeric offset, ISO-8601 texts, whose zone is absent, Z or a numeric offset,
\* and a text of neither format
ChannelDateTexts ==
    {PublishedText("rfc822", w, z) :
        w \in {Now - 2, Now},
        z \in {ZoneName("GMT"), ZoneName("UTC"), ZoneName("EST"), ZoneOffset(0), ZoneOffset(2)}}
    \cup {PublishedText("iso", w, z) :
        w \in {Now - 2, Now}, z \in {NoZone, ZoneZ, ZoneOffset(0), ZoneOffset(2)}}
    \cup {GarbagePublished}
ChannelDateCalls ==
    [op : {"channel_date"}, text : ChannelDateTexts, local : LocalZones]

\* YouTubeScraper._parse_published_date
ResolveChannelDate ==
    /\ pc = "idle"
    /\ call.op = "channel_date"
    /\ ret' = Returned(YouTubeParsePublishedDate(call.text, call.local))
    /\ pc' = "done"
    /\ UNCHANGED <<requests, call, net, failed, collected, aggregatorVars>>

ChannelIdCalls == [op : {"channel_id"}, ident : Identifiers]

\* YouTubeScraper.extract_channel_id; the page is what the handle lookup, if any, sees
ResolveChannelId ==
    /\ pc = "idle"
    /\ call.op = "channel_id"
    /\ \E page \in PagesFor(call.ident) :
          /\ net' = [page |-> page]
          /\ ret' = ExtractChannelId(call.ident, page)
    /\ pc' = "done"
    /\ UNCHANGED <<requests, call, failed, collected, aggregatorVars>>

\* listings for get_video_transcript: of each kind, tracks of different languages,
\* each with a text that names it or with a fetch that fails
TrackLanguages == {"en", "fr", "de"}
TracksOfKind(is_generated) ==
    {ts \in SeqsUpTo(UNION {{Track(lang, is_generated, None),
                              Track(lang, is_generated,
                                    Some(<<lang, IF is_generated THEN "g" ELSE "m">>))} :
                                lang \in TrackLanguages},
                     MaxTracks) :
        \A i, j \in 1..Len(ts) : i # j => ts[i].language_code # ts[j].language_code}
TranscriptListings ==
    {ListingFailed}
    \cup {Listing(manual, generated) :
            manual \in TracksOfKind(FALSE), generated \in TracksOfKind(TRUE)}
\* the languages argument: None (the default), or a list in preferred order
LanguagesChoices == {None, Some(<<"fr", "en">>), Some(<<"de">>)}
TranscriptCalls == [op : {"transcript"}, languages : LanguagesChoices]

\* YouTubeScraper.get_video_transcript
ResolveTranscript ==
    /\ pc = "idle"
    /\ call.op = "transcript"
    /\ \E listing \in TranscriptListings :
          /\ net' = [listing |-> listing]
          /\ ret' = Returned(GetVideoTranscript(listing, LanguagesOrDefault(call.languages)))
    /\ pc' = "done"
    /\ UNCHANGED <<requests, call, failed, collected, aggregatorVars>>

ResolverCalls == RssDateCalls \cup ChannelDateCalls \cup ChannelIdCalls \cup TranscriptCalls

InitResolvers ==
    /\ pc = "idle"
    /\ call \in ResolverCalls
    /\ net = <<>>
    /\ ret = Returned(<<>>)
    /\ failed = {}
    /\ collected = <<>>
    /\ results = NoResults
    /\ channel = 0
    /\ log = <<>>
    /\ total_items = 0
    /\ requests = <<>>

NextResolvers ==
    ResolveRssDate \/ ResolveChannelDate \/ ResolveChannelId \/ ResolveTranscript

SpecResolvers == InitResolvers /\ [][NextResolvers]_vars


----------------------------------------------------------------------------
(* Views of the input and of the outcome used by the properties *)

Done == pc = "done"
Result == ret.value

\* the places <<n, i>> of the entries the network returned: entry i of fetch n
Places == UNION {{<<n, i>> : i \in 1..Len(net[n].entries)} : n \in 1..Len(net)}
EntryAt(p) == net[p[1]].entries[p[2]]
\* input order: feed iteration order, then entry order within the feed
Before(p, q) == p[1] < q[1] \/ (p[1] = q[1] /\ p[2] < q[2])

\* the <url> elements that name an article page; every RSS entry is considered
Considered(p) ==
    IF call.adapter = "forwardfuture"
    THEN /\ ~IsNone(EntryAt(p).loc)
         /\ Val(EntryAt(p).loc) # <<>>
         /\ HasArticlePath(Val(EntryAt(p).loc))
    ELSE TRUE

\* the date the adapter's resolver gives for the entry
ResolvedDate(p) ==
    IF call.adapter = "forwardfuture"
    THEN IF IsNone(EntryAt(p).lastmod) THEN None ELSE ParseDate(Val(EntryAt(p).lastmod))
    ELSE ParsePublishedDate(EntryAt(p))

EntryUrl(p) ==
    IF call.adapter = "forwardfuture" THEN Val(EntryAt(p).loc) ELSE Val(EntryAt(p).link)

Dated(p) == Considered(p) /\ ~IsNone(ResolvedDate(p))
Dateless(p) == Considered(p) /\ IsNone(ResolvedDate(p))
InWindow(p) ==
    /\ Dated(p)
    /\ Val(ResolvedDate(p)).instant >= Now - call.hours
    /\ Val(ResolvedDate(p)).instant <= Now
TooOld(p) ==
    /\ Dated(p)
    /\ Val(ResolvedDate(p)).instant < Now - call.hours
    /\ Val(ResolvedDate(p)).instant <= Now + Day
FutureSuspect(p) == Dated(p) /\ Val(ResolvedDate(p)).instant > Now + Day

HasRecordOf(p) == \E k \in 1..Len(Result) : Result[k].entry = p
HasUrlOf(p) == \E k \in 1..Len(Result) : Result[k].url = EntryUrl(p)

\* the call returned and the feed of p was processed without an exception
Processed(p) == Done /\ ~ret.raised /\ p[1] \notin failed

DatelessInResult == {k \in 1..Len(Result) : IsNone(Result[k].published_date)}

----------------------------------------------------------------------------
(* C1: in each article adapter called with hours >= 0, an entry of a feed   *)
(* that was processed, whose date resolves to an instant d, yields no       *)
(* record when d is before the cutoff now - hours, and its URL is in the    *)
(* result when d lies in [now - hours, now] (d equal to the cutoff          *)
(* included) or is more than a day ahead of now, whatever the dateless cap. *)
C1_TimeWindow ==
    (Done /\ call.hours >= 0) =>
        \A p \in Places : Processed(p) =>
            /\ TooOld(p) => ~HasRecordOf(p)
            /\ (InWindow(p) \/ FutureSuspect(p)) => HasUrlOf(p)

\* an old entry, an entry exactly at the cutoff and a future entry were processed
\* with a cap of 0
C1_Witness ==
    /\ Done /\ call.cap = 0 /\ call.adapter = "anthropic"
    /\ \E p, q, r \in Places :
        /\ Processed(p) /\ Processed(q) /\ Processed(r)
        /\ TooOld(p) /\ ~HasRecordOf(p)
        /\ Dated(q) /\ Val(ResolvedDate(q)).instant = Now - call.hours /\ HasRecordOf(q)
        /\ FutureSuspect(r) /\ HasRecordOf(r)

(* C2: for a single-source adapter (OpenAI feed, sitemap) with cap c >= 0   *)
(* and n entries of unknown date, the dateless records of the result are    *)
(* exactly the first min(c, n) dateless entries, in feed order; none when   *)
(* c = 0.                                                                    *)
C2_DatelessCap ==
    (Done /\ call.adapter \in {"openai", "forwardfuture"} /\ ~ret.raised /\ call.cap >= 0) =>
        LET dateless == {p \in Places : Dateless(p)}
            first == {p \in dateless :
                        Cardinality({q \in dateless : Before(q, p)}) < call.cap}
        IN  /\ {Result[k].entry : k \in DatelessInResult} = first
            /\ Cardinality(DatelessInResult) = Cardinality(first)
            /\ \A k, l \in DatelessInResult :
                    k < l => Before(Result[k].entry, Result[l].entry)
            /\ \A k \in DatelessInResult : Result[k].url = EntryUrl(Result[k].entry)

\* more dateless entries than the cap: the first is admitted, a later one discarded
C2_Witness ==
    /\ Done /\ call.adapter = "openai" /\ ~ret.raised /\ call.cap = 1
    /\ Cardinality({p \in Places : Dateless(p)}) >= 2
    /\ Cardinality(DatelessInResult) = 1
    /\ \E p \in Places : Dateless(p) /\ ~HasRecordOf(p)

(* C3: the sequence returned by an article adapter is non-increasing by     *)
(* published date, and every record of unknown date comes after every       *)
(* record with a known date.                                                 *)
C3_SortedNewestFirst ==
    (Done /\ ~ret.raised) =>
        \A k, l \in 1..Len(Result) : k < l =>
            /\ IsNone(Result[k].published_date) => IsNone(Result[l].published_date)
            /\ (~IsNone(Result[k].published_date) /\ ~IsNone(Result[l].published_date))
                    => Val(Result[k].published_date).instant >= Val(Result[l].published_date).instant

\* a result with a future, an in-window and a dateless record that were collected
\* in another order
C3_Witness ==
    /\ Done /\ ~ret.raised /\ Len(Result) >= 3 /\ Result # collected
    /\ \E k, l, m \in 1..Len(Result) :
        /\ ~IsNone(Result[k].published_date) /\ Val(Result[k].published_date).instant > Now + Day
        /\ ~IsNone(Result[l].published_date) /\ Val(Result[l].published_date).instant <= Now
        /\ IsNone(Result[m].published_date)

(* C4: the result of the multi-feed adapter holds, for every URL of a       *)
(* collected record, exactly one record with that URL string; URLs that     *)
(* differ by a trailing slash are different URLs and give two records.      *)
C4_UniqueUrls ==
    (Done /\ call.adapter = "anthropic" /\ ~ret.raised) =>
        /\ \A j \in 1..Len(collected) :
              Cardinality({k \in 1..Len(Result) : Result[k].url = collected[j].url}) = 1
        /\ \A k \in 1..Len(Result) : \E j \in 1..Len(collected) : collected[j] = Result[k]

\* one URL collected from two feeds and its trailing-slash variant: two records
C4_Witness ==
    /\ Done /\ call.adapter = "anthropic" /\ ~ret.raised
    /\ \E i, j, k \in 1..Len(collected) :
        /\ collected[i].url = collected[j].url
        /\ collected[i].entry[1] # collected[j].entry[1]
        /\ collected[k].url = collected[i].url \o <<"">>
    /\ Len(Result) = 2

\* the record the adapter builds from the entry at place p
RecordOfEntry(p) ==
    [title |-> Val(EntryAt(p).title), url |-> EntryUrl(p),
     published_date |-> ResolvedDate(p), category |-> Category(EntryAt(p)),
     source_feed |-> FeedNames(call.feeds)[p[1]], entry |-> p]

\* the places of the collected records that carry the URL of record r
SameUrl(r) == {collected[j].entry : j \in {i \in 1..Len(collected) : collected[i].url = r.url}}

(* C5 as stated: of several entries with one URL, the record kept is the    *)
(* one of the first entry in input order (feed order, then entry order),    *)
(* whether that entry is dated or dateless.                                  *)
C5_FirstInInputOrder ==
    (Done /\ call.adapter = "anthropic" /\ ~ret.raised) =>
        \A k \in 1..Len(Result) :
            /\ Result[k] = RecordOfEntry(Result[k].entry)
            /\ \A q \in SameUrl(Result[k]) : ~Before(q, Result[k].entry)

(* C5 amended: the record kept is the first one in the order the adapter    *)
(* collects them, in-window dated entries (feed order, then entry order)    *)
(* before the admitted dateless ones: the first dated entry with that URL   *)
(* if there is one, else the first admitted dateless entry; its date,       *)
(* category and source_feed are those of that entry.                         *)
C5_FirstCollected ==
    (Done /\ call.adapter = "anthropic" /\ ~ret.raised) =>
        \A k \in 1..Len(Result) :
            LET kept == Result[k].entry
                dated == {q \in SameUrl(Result[k]) : Dated(q)}
            IN  /\ Result[k] = RecordOfEntry(kept)
                /\ kept \in SameUrl(Result[k])
                /\ dated # {} => kept \in dated
                /\ \A q \in (IF dated # {} THEN dated ELSE SameUrl(Result[k])) :
                        ~Before(q, kept)

\* a dateless entry of an earlier feed and a dated entry of a later feed share a
\* URL and differ in category: the dated one is kept
C5_Witness ==
    /\ Done /\ call.adapter = "anthropic" /\ ~ret.raised
    /\ \E k \in 1..Len(Result) : \E q \in SameUrl(Result[k]) :
        /\ Before(q, Result[k].entry)
        /\ q[1] < Result[k].entry[1]
        /\ Dateless(q)
        /\ Category(EntryAt(q)) # Result[k].category

(* C6: no entry point of a source adapter raises to its caller.             *)
C6_NeverRaises == Done => ~ret.raised

(* C8: in the multi-feed adapter, whatever goes wrong with one feed, every  *)
(* in-window entry of a feed that was fetched and holds no malformed entry  *)
(* has its URL in the result of get_articles.                               *)
C8_SiblingFeedsKept ==
    (Done /\ call.adapter = "anthropic") =>
        \A p \in Places :
            (/\ p[1] \notin failed
             /\ \A i \in 1..Len(net[p[1]].entries) : ~Malformed(net[p[1]].entries[i])
             /\ InWindow(p))
            => HasUrlOf(p)

(* C9: a feed (or the sitemap) whose processing failed at any point leaves  *)
(* no record in the result.                                                  *)
C9_FailedUnitEmpty ==
    Done => \A n \in failed : \A k \in 1..Len(Result) : Result[k].entry[1] # n



----------------------------------------------------------------------------
(* Views of a run of collect_all_content *)

\* the videos of the channels called so far, a raising channel contributing none
RECURSIVE VideosLogged(_)
VideosLogged(k) ==
    IF k = 0 THEN <<>>
    ELSE IF log[k].source = "youtube" /\ ~log[k].outcome.raised
    THEN VideosLogged(k - 1) \o log[k].outcome.value
    ELSE VideosLogged(k - 1)

ReportKey(source) ==
    CASE source = "anthropic" -> "anthropic_articles"
      [] source = "openai" -> "openai_articles"
      [] source = "forwardfuture" -> "forwardfuture_articles"
      [] OTHER -> "youtube_videos"

(* C7: whatever sources fail or return nothing, collect_all_content returns  *)
(* a report; the sequence of each article source that did not fail is what   *)
(* its adapter returned and that of a failing one is empty; the videos are   *)
(* those the channels returned, in channel order, so that a failing channel  *)
(* loses none of the videos accumulated before it.                           *)
C7_Isolation ==
    pc # "idle" =>
        /\ results.youtube_videos = VideosLogged(Len(log))
        /\ \A k \in 1..Len(log) :
              log[k].source # "youtube" =>
                 results[ReportKey(log[k].source)] =
                    IF log[k].outcome.raised THEN <<>> ELSE log[k].outcome.value
        /\ Done => /\ ret = Returned(results)
                   /\ Len(log) = Len(call.channels) + 3

\* a run where a channel raises after an earlier channel gave videos, an article
\* adapter raises and another one gives articles
C7_Witness ==
    /\ Done
    /\ call.adapter = "aggregator"
    /\ \E i, j \in 1..Len(log) :
          /\ i < j
          /\ log[i].source = "youtube" /\ ~log[i].outcome.raised
          /\ log[i].outcome.value # <<>>
          /\ log[j].source = "youtube" /\ log[j].outcome.raised
    /\ results.youtube_videos # <<>>
    /\ \E k \in 1..Len(log) : log[k].source # "youtube" /\ log[k].outcome.raised
    /\ \E k \in 1..Len(log) :
          /\ log[k].source # "youtube" /\ ~log[k].outcome.raised
          /\ log[k].outcome.value # <<>>

----------------------------------------------------------------------------
(* Views of a call of get_latest_videos *)

VideoPlaces == 1..Len(net.feed.entries)
HasVideoOf(i) == \E k \in 1..Len(Result) : Result[k].entry = i
\* the entry has a published text that resolves to an instant inside the window
PublishedInWindow(i) ==
    LET entry == net.feed.entries[i]
    IN  /\ ~IsNone(entry.published)
        /\ ~IsNone(YouTubeParsePublishedDate(Val(entry.published), call.local))
        /\ Val(YouTubeParsePublishedDate(Val(entry.published), call.local)).instant
              >= Now - call.hours
\* the entry has no usable published field: none at all, or an unparsable text
NoUsablePublished(i) ==
    LET entry == net.feed.entries[i]
    IN  \/ IsNone(entry.published)
        \/ IsNone(YouTubeParsePublishedDate(Val(entry.published), call.local))
ChannelFeedRead ==
    /\ Done
    /\ call.adapter = "youtube"
    /\ ~ret.raised
    /\ net.feed.ok
    /\ ~IsNone(ExtractChannelId(call.ident, net.page).value)

(* C10 as stated: date resolution never aborts the adapter.  In a channel    *)
(* feed whose entries all have a title and a link, an entry without a usable *)
(* published field (absent, or unparsable) is left out and every entry       *)
(* published inside the window still has its video in the result.            *)
C10_DateNeverAborts ==
    (/\ ChannelFeedRead
     /\ \A i \in VideoPlaces : /\ ~IsNone(net.feed.entries[i].title)
                               /\ ~IsNone(net.feed.entries[i].link))
    => /\ \A i \in VideoPlaces : PublishedInWindow(i) => HasVideoOf(i)
       /\ \A i \in VideoPlaces : NoUsablePublished(i) => ~HasVideoOf(i)


----------------------------------------------------------------------------
(* Views of a call of a resolver *)

\* the time tuple is present and converts to a datetime
StructParses(parsed) == ~IsNone(parsed) /\ Val(parsed).valid
\* the raw text is present and feedparser decodes it
TextParses(text) == ~IsNone(text) /\ Val(text).wellformed

(* C11 as stated: the RSS date resolver returns the first of published_parsed, *)
(* updated_parsed and the raw published text that parses, as a UTC instant;    *)
(* a candidate that is present but does not parse falls through to the next    *)
(* one, and unknown is returned only when no candidate parses.                 *)
C11_FirstSuccessWins ==
    (Done /\ call.op = "rss_date") =>
        LET entry == call.entry
        IN  /\ ~ret.raised
            /\ ret.value =
                 IF StructParses(entry.published_parsed)
                 THEN Some(UtcDatetime(Val(entry.published_parsed).instant))
                 ELSE IF StructParses(entry.updated_parsed)
                 THEN Some(UtcDatetime(Val(entry.updated_parsed).instant))
                 ELSE IF TextParses(entry.published)
                 THEN Some(UtcDatetime(Val(entry.published).instant))
                 ELSE None


(* C12: every record an adapter returns has a published date that is absent *)
(* or an aware datetime with UTC offset zero, whichever resolver produced   *)
(* it (time tuple, RFC-822 text, ISO-8601 text, YYYY-MM-DD).                *)
C12_DatesAreUtc ==
    (Done /\ ~ret.raised) =>
        \A k \in 1..Len(Result) :
            \/ IsNone(Result[k].published_date)
            \/ Val(Result[k].published_date).utcoffset = Some(0)

\* on a machine whose zone is not UTC, a channel feed with an ISO-8601 text without
\* offset and an RFC-822 text: both videos are returned
C12_Witness ==
    /\ Done /\ call.adapter = "youtube" /\ ~ret.raised
    /\ call.local.offset # 0
    /\ \E i, j \in 1..Len(net.feed.entries) :
          /\ ~IsNone(net.feed.entries[i].published)
          /\ ~IsNone(net.feed.entries[j].published)
          /\ Val(net.feed.entries[i].published).fmt = "iso"
          /\ Val(net.feed.entries[i].published).zone.kind = "none"
          /\ Val(net.feed.entries[j].published).fmt = "rfc822"
          /\ \E k, l \in 1..Len(Result) : Result[k].entry = i /\ Result[l].entry = j
    /\ \A k \in 1..Len(Result) : Val(Result[k].published_date).utcoffset = Some(0)


\* the text carries a UTC offset (numeric, Z, or a name of UTC) or, in ISO-8601,
\* none at all
OffsetOrNone(text) ==
    \/ text.zone.kind \in {"Z", "offset"}
    \/ text.zone.kind = "name" /\ text.zone.name \in {"GMT", "UTC"}
    \/ text.zone.kind = "none" /\ text.fmt = "iso"
\* the instant such a text denotes, a text without offset being in UTC
DenotedInstant(text) == text.wall - text.zone.offset

(* C13 as stated: the channel-feed date resolver maps every well-formed       *)
(* RFC-822 or ISO-8601 text to the instant it denotes, in UTC: a text with a   *)
(* numeric offset or Z is converted by that offset, a text without offset is   *)
(* taken as UTC whatever the local zone of the machine, and the result is      *)
(* never unknown.                                                              *)
C13_SameInstantInUtc ==
    (/\ Done
     /\ call.op = "channel_date"
     /\ call.text.fmt \in {"rfc822", "iso"}
     /\ OffsetOrNone(call.text))
    => ret.value = Some(UtcDatetime(DenotedInstant(call.text)))


\* a handle whose name can be read: a bare handle, or a handle URL with a name
NamedHandle(ident) ==
    ContainsAt(ident) /\ ~(ContainsHandleUrl(ident) /\ IsNone(SearchHandle(ident)))
\* the page of the handle could not be fetched or embeds the id in neither pattern
Unresolvable(page) == ~page.ok \/ (IsNone(page.channelId) /\ IsNone(page.canonical))

(* C14: extract_channel_id returns a literal canonical id unchanged, returns *)
(* the id embedded in a channel URL, and returns None for a handle whose     *)
(* page fetch fails or whose page holds neither embedding pattern.           *)
C14_ChannelIdForms ==
    (Done /\ call.op = "channel_id") =>
        /\ MatchesChannelId(call.ident) => ret = Returned(Some(call.ident.id))
        /\ (ContainsChannelUrl(call.ident) /\ call.ident.id # "")
              => ret = Returned(Some(call.ident.id))
        /\ (NamedHandle(call.ident) /\ Unresolvable(net.page)) => ret = Returned(None)

\* a handle URL whose page was fetched and holds neither pattern: None
C14_Witness ==
    /\ Done /\ call.op = "channel_id"
    /\ ContainsHandleUrl(call.ident) /\ NamedHandle(call.ident)
    /\ net.page.ok /\ Unresolvable(net.page)
    /\ ret = Returned(None)

(* C15 as stated: for every identifier, channel resolution ends in a channel *)
(* id or in None and never in an exception; an identifier with the           *)
(* handle-URL marker but no handle name gives None, as does an identifier of *)
(* none of the three forms.                                                   *)
C15_ResolutionNeverRaises ==
    (Done /\ call.op = "channel_id") =>
        /\ ~ret.raised
        /\ (ContainsHandleUrl(call.ident) /\ IsNone(SearchHandle(call.ident)))
              => ret = Returned(None)
        /\ (~MatchesChannelId(call.ident) /\ ~ContainsChannelUrl(call.ident)
            /\ ~ContainsAt(call.ident)) => ret = Returned(None)


\* the tracks of the listing, in listing order
ListedTracks == net.listing.manual \o net.listing.generated
PreferredLanguages == LanguagesOrDefault(call.languages)
\* the tracks the selection order allows: those of the first preferred language that
\* has a track, else the first listed track
SelectableTracks ==
    LET hits == {k \in 1..Len(PreferredLanguages) :
                    \E t \in Range(ListedTracks) : t.language_code = PreferredLanguages[k]}
    IN  IF hits # {}
        THEN LET k == CHOOSE h \in hits : \A g \in hits : h <= g
             IN  {t \in Range(ListedTracks) : t.language_code = PreferredLanguages[k]}
        ELSE IF ListedTracks # <<>> THEN {ListedTracks[1]}
        ELSE {}
\* what fetching track t gives: its flattened text, or None when the fetch fails
FetchedText(t) ==
    IF IsNone(t.segments) THEN None ELSE Some([text |-> JoinSegments(Val(t.segments))])
TranscriptCallDone == Done /\ call.op = "transcript"

(* C16: get_video_transcript selects a track of the first preferred language *)
(* that has one, else (no manually created and no generated track in a       *)
(* preferred language either) the first listed track of any kind or          *)
(* language; when the listing holds a track and the fetch of the selected    *)
(* one succeeds, the result is its flattened text.                           *)
C16_SelectionOrder ==
    (TranscriptCallDone /\ net.listing.ok /\ ListedTracks # <<>>) =>
        /\ ret.value \in {FetchedText(t) : t \in SelectableTracks}
        /\ (\A t \in SelectableTracks : ~IsNone(t.segments)) => ~IsNone(ret.value)

\* only a generated French track is listed, the preferred languages are the default
\* [en]: the result is the text of that track
C16_Witness ==
    /\ TranscriptCallDone /\ net.listing.ok
    /\ IsNone(call.languages)
    /\ net.listing.manual = <<>>
    /\ Len(net.listing.generated) = 1
    /\ net.listing.generated[1].language_code = "fr"
    /\ ret.value = Some([text |-> <<"fr", " ", "g">>])

(* C17: get_video_transcript never raises; an empty listing, a listing that  *)
(* cannot be obtained (transcripts disabled, or another error) and a failing *)
(* fetch of the selected track each give None, and after a failing fetch no  *)
(* other track is tried.                                                      *)
C17_UnavailableIsNone ==
    TranscriptCallDone =>
        /\ ~ret.raised
        /\ ~net.listing.ok => IsNone(ret.value)
        /\ (net.listing.ok /\ ListedTracks = <<>>) => IsNone(ret.value)
        /\ (net.listing.ok /\ \A t \in SelectableTracks : IsNone(t.segments))
              => IsNone(ret.value)

\* the fetch of the selected track fails while another listed track could be
\* fetched: the result is None
C17_Witness ==
    /\ TranscriptCallDone /\ net.listing.ok
    /\ SelectableTracks # {}
    /\ \A t \in SelectableTracks : IsNone(t.segments)
    /\ \E t \in Range(ListedTracks) : ~IsNone(t.segments)
    /\ IsNone(ret.value)


----------------------------------------------------------------------------
(* Dateless videos, duplicates and order of the single-feed sequences *)

\* every entry of the channel feed has the attributes the loop reads
AllEntriesComplete ==
    \A i \in VideoPlaces : /\ ~IsNone(net.feed.entries[i].title)
                           /\ ~IsNone(net.feed.entries[i].link)
                           /\ ~IsNone(net.feed.entries[i].published)
\* entry i is the first of the feed whose published text does not resolve
FirstDateless(i) ==
    /\ NoUsablePublished(i)
    /\ \A j \in VideoPlaces : j < i => ~NoUsablePublished(j)

(* C18 as stated: the channel-feed adapter holds dateless videos out and     *)
(* does not discard them: the first video of the feed whose date is unknown  *)
(* appears in the result of get_latest_videos.                                *)
C18_DatelessHeldOut ==
    (ChannelFeedRead /\ AllEntriesComplete) =>
        \A i \in VideoPlaces : FirstDateless(i) => HasVideoOf(i)

(* C19 as stated: the sequence of a single-feed source (the one-feed RSS     *)
(* adapter, the sitemap adapter) holds no two records with the same URL,     *)
(* also when the raw feed lists an entry twice.                               *)
C19_SingleFeedUnique ==
    (Done /\ call.adapter \in {"openai", "forwardfuture"} /\ ~ret.raised) =>
        \A k, l \in 1..Len(Result) : Result[k].url = Result[l].url => k = l

(* C20 as stated: the result of get_latest_videos for one channel is         *)
(* non-increasing by published date.                                          *)
C20_VideosNewestFirst ==
    (Done /\ call.adapter = "youtube" /\ ~ret.raised) =>
        \A k, l \in 1..Len(Result) :
            (k < l /\ ~IsNone(Result[k].published_date) /\ ~IsNone(Result[l].published_date))
                => Val(Result[l].published_date).instant
                      <= Val(Result[k].published_date).instant


----------------------------------------------------------------------------
(* The report of collect_all_content *)

\* the videos the channels before channel n handed to the aggregator
RECURSIVE VideosBefore(_)
VideosBefore(n) ==
    IF n <= 1 THEN 0
    ELSE VideosBefore(n - 1)
            + (IF log[n - 1].outcome.raised THEN 0 ELSE Len(log[n - 1].outcome.value))

(* C21: the report of collect_all_content holds the four source groups and   *)
(* the run timestamp, whatever the sources gave; in youtube_videos the       *)
(* videos of an earlier configured channel come before those of a later one; *)
(* the grand total of the summary is the sum of the lengths of the four      *)
(* sequences of the returned report.                                          *)
C21_ReportShape ==
    (Done /\ call.adapter = "aggregator") =>
        /\ DOMAIN Result = {"youtube_videos", "anthropic_articles", "openai_articles",
                            "forwardfuture_articles", "timestamp"}
        /\ \A n \in 1..Len(call.channels) :
              ~log[n].outcome.raised =>
                 \A m \in 1..Len(log[n].outcome.value) :
                    /\ VideosBefore(n) + m <= Len(Result.youtube_videos)
                    /\ Result.youtube_videos[VideosBefore(n) + m] = log[n].outcome.value[m]
        /\ Len(Result.youtube_videos) = VideosBefore(Len(call.channels) + 1)
        /\ total_items = Len(Result.youtube_videos) + Len(Result.anthropic_articles)
                            + Len(Result.openai_articles) + Len(Result.forwardfuture_articles)

\* two channels gave different videos, one article source gave nothing and a later
\* one gave an article, and the total counts them all
C21_Witness ==
    /\ Done /\ call.adapter = "aggregator"
    /\ \E i, j \in 1..Len(call.channels) :
          /\ i < j
          /\ ~log[i].outcome.raised /\ ~log[j].outcome.raised
          /\ log[i].outcome.value # <<>> /\ log[j].outcome.value # <<>>
          /\ log[i].outcome.value # log[j].outcome.value
    /\ Result.anthropic_articles = <<>>
    /\ Result.openai_articles # <<>>
    /\ total_items >= 3


----------------------------------------------------------------------------
(* The steps of get_latest_videos *)

YouTubeCallDone == Done /\ call.adapter = "youtube" /\ ~ret.raised

(* C22: with include_transcripts the result of get_latest_videos holds one   *)
(* record per video that survived the time filter, in the same order, equal  *)
(* to it in every field but transcript; the records the feed step made are   *)
(* not changed (they still hold no transcript); a record without video_id is *)
(* passed through as it is.                                                   *)
C22_OnlyTranscriptChanges ==
    (YouTubeCallDone /\ call.include_transcripts) =>
        /\ Len(Result) = Len(collected)
        /\ \A k \in 1..Len(collected) :
              /\ IsNone(collected[k].transcript)
              /\ [Result[k] EXCEPT !.transcript = None] = collected[k]
              /\ IsNone(collected[k].video_id) => Result[k] = collected[k]

\* a result of two records: one got a transcript, one has no video_id
C22_Witness ==
    /\ YouTubeCallDone /\ call.include_transcripts
    /\ Len(Result) = 2
    /\ \E k \in 1..2 : ~IsNone(Result[k].transcript)
    /\ \E k \in 1..2 : IsNone(Result[k].video_id)


\* the steps in their order: resolve the channel, fetch the feed, fetch transcripts
StepOf(kind) == CASE kind = "page" -> 1 [] kind = "feed" -> 2 [] OTHER -> 3
RequestsOf(kind) == {k \in 1..Len(requests) : requests[k].kind = kind}

(* C23: get_latest_videos resolves the channel, then fetches the feed, then  *)
(* filters, then fetches transcripts: when the channel is unknown the result *)
(* is empty and neither the feed nor a transcript is requested; a transcript *)
(* is requested only with include_transcripts, and only for a video of the   *)
(* result (one that survived the filter) that has a video_id.                *)
C23_StepOrder ==
    YouTubeCallDone =>
        /\ \A i, j \in 1..Len(requests) :
              i < j => StepOf(requests[i].kind) <= StepOf(requests[j].kind)
        /\ IsNone(ExtractChannelId(call.ident, net.page).value) =>
              /\ Result = <<>>
              /\ RequestsOf("feed") = {} /\ RequestsOf("transcript") = {}
        /\ \A k \in RequestsOf("transcript") :
              /\ call.include_transcripts
              /\ \E l \in 1..Len(Result) : /\ Result[l].entry = requests[k].entry
                                           /\ ~IsNone(Result[l].video_id)
        /\ \A i \in VideoPlaces :
              ~HasVideoOf(i) => \A k \in RequestsOf("transcript") : requests[k].entry # i

\* a handle was looked up, the feed gave two videos with a video_id, the filter
\* dropped one, and one transcript was requested
C23_Witness ==
    /\ YouTubeCallDone /\ call.include_transcripts
    /\ RequestsOf("page") # {}
    /\ Len(net.feed.entries) = 2
    /\ \A i \in VideoPlaces : ~IsNone(net.feed.entries[i].yt_videoid)
    /\ Len(Result) = 1
    /\ Cardinality(RequestsOf("transcript")) = 1


----------------------------------------------------------------------------
(* The final sort and the dateless budget of the article adapters *)

ArticleCallDone ==
    Done /\ call.adapter \in {"openai", "anthropic", "forwardfuture"} /\ ~ret.raised

(* C24: the final sort of the article adapters is stable: the dateless       *)
(* records of the result stand in their feed order, and dated records with   *)
(* equal published dates stand in their input order.                         *)
C24_StableSort ==
    ArticleCallDone =>
        \A k, l \in 1..Len(Result) :
            (/\ k < l
             /\ \/ IsNone(Result[k].published_date) /\ IsNone(Result[l].published_date)
                \/ /\ ~IsNone(Result[k].published_date) /\ ~IsNone(Result[l].published_date)
                   /\ Val(Result[k].published_date).instant
                        = Val(Result[l].published_date).instant)
            => Before(Result[k].entry, Result[l].entry)

\* two dateless entries stand in the feed before a dated one: the result holds the
\* dated record and then the two dateless ones in their feed order
C24_Witness ==
    /\ ArticleCallDone
    /\ Len(Result) = 3
    /\ ~IsNone(Result[1].published_date)
    /\ IsNone(Result[2].published_date) /\ IsNone(Result[3].published_date)
    /\ Before(Result[2].entry, Result[1].entry)
    /\ Before(Result[2].entry, Result[3].entry)

\* two dated records of one date and different URLs stand in their input order
C24_EqualDates ==
    /\ ArticleCallDone
    /\ \E k, l \in 1..Len(Result) :
          /\ k < l
          /\ ~IsNone(Result[k].published_date)
          /\ Result[k].published_date = Result[l].published_date
          /\ Result[k].url # Result[l].url
          /\ Before(Result[k].entry, Result[l].entry)


MultiFeedCallDone == Done /\ call.adapter = "anthropic" /\ ~ret.raised /\ call.cap >= 0

\* the dateless places among ps that stand among the first cap of them
WithinBudget(ps) ==
    {p \in ps : Cardinality({q \in ps : Before(q, p)}) < call.cap}

\* the loop over the entries of its feed came to p: no entry before p made the
\* try block of the feed end
ReachedByLoop(p) ==
    \A j \in 1..(p[2] - 1) :
        LET entry == net[p[1]].entries[j]
        IN  ~(/\ Malformed(entry)
              /\ TimeFilter(ParsePublishedDate(entry), Now - call.hours, Now) = "keep")

(* C25 as stated: the dateless cap of the multi-feed adapter is one budget   *)
(* over all feeds, taken before deduplication: the dateless records of the   *)
(* result number at most c, all come from the first c dateless entries in    *)
(* feed-then-entry order of the feeds.                                        *)
C25_BudgetOverAllEntries ==
    MultiFeedCallDone =>
        LET budget == WithinBudget({p \in Places : Dateless(p)})
        IN  /\ Cardinality(DatelessInResult) <= call.cap
            /\ \A k \in DatelessInResult : Result[k].entry \in budget

(* C25, amended: the budget is over the dateless entries the loops came to;  *)
(* an entry behind a malformed in-window entry of its feed is never seen and *)
(* takes no slot.  Each entry of the budget has its URL in the result, by    *)
(* its own record or by an earlier record that made it a duplicate.          *)
C25_GlobalBudget ==
    MultiFeedCallDone =>
        LET budget == WithinBudget({p \in Places : Dateless(p) /\ ReachedByLoop(p)})
        IN  /\ Cardinality(DatelessInResult) <= call.cap
            /\ \A k \in DatelessInResult : Result[k].entry \in budget
            /\ \A p \in budget : HasUrlOf(p)

\* the one slot of the budget went to a dateless entry whose URL an earlier record
\* has; a dateless entry of a later feed with another URL was discarded, and the
\* result holds no dateless record
C25_Witness ==
    /\ MultiFeedCallDone /\ call.cap = 1
    /\ DatelessInResult = {}
    /\ \E p, q \in Places :
          /\ Dateless(p) /\ Dateless(q) /\ ReachedByLoop(p) /\ ReachedByLoop(q)
          /\ p[1] < q[1]
          /\ HasUrlOf(p) /\ ~HasUrlOf(q)


----------------------------------------------------------------------------
(* The selection of get_video_transcript in two steps *)

\* the per-language lookup over the preferred languages, else the first listed track
TwoStepSelection ==
    LET preferred == PreferredTranscript(net.listing, PreferredLanguages, 1)
    IN  IF ~IsNone(preferred) THEN preferred
        ELSE IF ListedTracks # <<>> THEN Some(ListedTracks[1])
        ELSE None

(* C26: the four-step selection of get_video_transcript selects what a       *)
(* two-step selection does: when the per-language lookup finds no track for  *)
(* any preferred language, the lookups of manually created and of generated  *)
(* tracks over the preferred languages find none either, and the selected    *)
(* track is the first listed one; the result of the call is what fetching    *)
(* the two-step selection gives.                                              *)
C26_TwoStepEquivalent ==
    (TranscriptCallDone /\ net.listing.ok) =>
        /\ IsNone(PreferredTranscript(net.listing, PreferredLanguages, 1)) =>
              /\ IsNone(FindManuallyCreatedTranscript(net.listing, PreferredLanguages))
              /\ IsNone(FindGeneratedTranscript(net.listing, PreferredLanguages))
        /\ SelectTranscript(net.listing, PreferredLanguages) = TwoStepSelection
        /\ ret.value = IF IsNone(TwoStepSelection) THEN None
                       ELSE FetchedText(Val(TwoStepSelection))

\* no track of a preferred language: a manually created German track is listed
\* before a generated German one, and the result is the text of the manual track
C26_Witness ==
    /\ TranscriptCallDone /\ net.listing.ok
    /\ call.languages = Some(<<"fr", "en">>)
    /\ Len(net.listing.manual) = 1 /\ net.listing.manual[1].language_code = "de"
    /\ Len(net.listing.generated) = 1 /\ net.listing.generated[1].language_code = "de"
    /\ ret.value = Some([text |-> <<"de", " ", "m">>])

====
